---- MODULE Spec2Model ----
(***************************************************************************)
(* TreeFS (treefs.py): building a directory tree from tree-text lines or   *)
(* from a nested mapping, exporting a directory as a mapping, and the      *)
(* 'build' command of the CLI that drives them.                            *)
(*                                                                         *)
(* Strings are sequences of characters, each a TLA+ string naming it.  A   *)
(* pathlib path is the sequence of its segments counted from "/"; a        *)
(* segment is a string.  The filesystem is a function from the canonical   *)
(* paths that exist to their nodes.                                        *)
(***************************************************************************)
EXTENDS Integers, Sequences, FiniteSets, TLC

\* ------------------------------------------------------------ bounds
MaxLines == 2
MaxSize == 2

\* ------------------------------------------------------------ strings
\* the four box-drawing glyphs, each one character of the model's alphabet
TREE_CHARS == {"VBAR", "TEE", "CORNER", "DASH"}

Whitespace == {" ", "LF", "CR"}

Front(s) == SubSeq(s, 1, Len(s) - 1)

Last(s) == s[Len(s)]

\* str.lower() on the alphabet of the model
LowerChar(c) == IF c = "P" THEN "p" ELSE c

Lower(s) == [i \in 1..Len(s) |-> LowerChar(s[i])]

StartsWith(s, pre) == Len(s) >= Len(pre) /\ SubSeq(s, 1, Len(pre)) = pre

EndsWith(s, c) == s # <<>> /\ Last(s) = c

RECURSIVE LStrip(_)
LStrip(s) == IF s # <<>> /\ Head(s) \in Whitespace THEN LStrip(Tail(s)) ELSE s

RECURSIVE RStrip(_)
RStrip(s) == IF s # <<>> /\ Last(s) \in Whitespace THEN RStrip(Front(s)) ELSE s

Strip(s) == LStrip(RStrip(s))

RECURSIVE RemoveChars(_, _)
RemoveChars(s, cs) ==
    IF s = <<>> THEN <<>>
    ELSE IF Head(s) \in cs THEN RemoveChars(Tail(s), cs)
    ELSE <<Head(s)>> \o RemoveChars(Tail(s), cs)

strip_tree_chars(line) == Strip(RemoveChars(line, TREE_CHARS))

\* ------------------------------------------------------------ pathlib
DOT == <<".">>

DOTDOT == <<".", ".">>

\* the segments of a string split on "/": empty and "." segments are dropped
RECURSIVE SplitFrom(_, _)
SplitFrom(s, cur) ==
    LET keep == IF cur = <<>> \/ cur = DOT THEN <<>> ELSE <<cur>>
    IN  IF s = <<>> THEN keep
        ELSE IF Head(s) = "/" THEN keep \o SplitFrom(Tail(s), <<>>)
        ELSE SplitFrom(Tail(s), Append(cur, Head(s)))

SplitPath(s) == SplitFrom(s, <<>>)

IsAbs(s) == s # <<>> /\ Head(s) = "/"

\* base / name
Join(base, name) == IF IsAbs(name) THEN SplitPath(name) ELSE base \o SplitPath(name)

\* path.parent
Parent(p) == IF p = <<>> THEN <<>> ELSE Front(p)

\* ------------------------------------------------------------ filesystem
DirNode == [kind |-> "dir", content |-> <<>>]

FileNode(c) == [kind |-> "file", content |-> c]

\* The kernel's walk of a path from the directory cur: "ok" the path names the
\* existing node p, "new" its parent exists and p does not, else the errno.
RECURSIVE Walk(_, _, _)
Walk(f, cur, segs) ==
    IF segs = <<>> THEN [st |-> "ok", p |-> cur]
    ELSE LET s == Head(segs)
             rest == Tail(segs)
             nxt == Append(cur, s)
         IN  IF s = DOTDOT THEN Walk(f, Parent(cur), rest)
             ELSE IF nxt \notin DOMAIN f
                  THEN IF rest = <<>> THEN [st |-> "new", p |-> nxt]
                       ELSE [st |-> "ENOENT", p |-> nxt]
             ELSE IF f[nxt].kind = "dir" THEN Walk(f, nxt, rest)
             ELSE IF rest = <<>> THEN [st |-> "ok", p |-> nxt]
             ELSE [st |-> "ENOTDIR", p |-> nxt]

Resolve(f, p) == Walk(f, <<>>, p)

Exists(f, p) == Resolve(f, p).st = "ok"

IsDir(f, p) == LET w == Resolve(f, p) IN w.st = "ok" /\ f[w.p].kind = "dir"

Put(f, p, node) == [q \in DOMAIN f \cup {p} |-> IF q = p THEN node ELSE f[q]]

OsMkdir(f, p) ==
    LET w == Resolve(f, p)
    IN  CASE w.st = "new" -> [fs |-> Put(f, w.p, DirNode), err |-> ""]
          [] w.st = "ok" -> [fs |-> f, err |-> "EEXIST"]
          [] OTHER -> [fs |-> f, err |-> w.st]

\* Path.mkdir(parents, exist_ok)
RECURSIVE Mkdir(_, _, _, _)
Mkdir(f, p, parents, exist_ok) ==
    LET r == OsMkdir(f, p)
    IN  IF r.err = "" THEN r
        ELSE IF r.err = "ENOENT"
             THEN IF ~parents \/ Parent(p) = p THEN r
                  ELSE LET r1 == Mkdir(f, Parent(p), TRUE, TRUE)
                       IN  IF r1.err # "" THEN r1
                           ELSE Mkdir(r1.fs, p, FALSE, exist_ok)
        ELSE IF ~exist_ok \/ ~IsDir(f, p) THEN r
        ELSE [fs |-> f, err |-> ""]

\* open(p, "w") and write: creates or truncates
WriteText(f, p, c) ==
    LET w == Resolve(f, p)
    IN  CASE w.st = "new" -> [fs |-> Put(f, w.p, FileNode(c)), err |-> ""]
          [] w.st = "ok" -> IF f[w.p].kind = "dir" THEN [fs |-> f, err |-> "EISDIR"]
                            ELSE [fs |-> Put(f, w.p, FileNode(c)), err |-> ""]
          [] OTHER -> [fs |-> f, err |-> w.st]

\* shutil.copy2(item, dest): into dest/<item name> when dest is a directory
Copy2(f, name, c, dest) ==
    IF IsDir(f, dest) THEN WriteText(f, Append(dest, name), c) ELSE WriteText(f, dest, c)

ensure_parent(f, p) ==
    IF ~Exists(f, Parent(p)) THEN Mkdir(f, Parent(p), TRUE, TRUE)
    ELSE [fs |-> f, err |-> ""]


\* ------------------------------------------------------------ action records
\* One entry of the list a build returns: str(path) followed by note.
Rec(p, note) == [path |-> p, note |-> note]

N_DIR == "/"

N_WOULD_DIR == "/ (would create)"

N_FILE == ""

N_WOULD_FILE == " (would create file)"

N_KEPT == " (exists, kept)"

N_TKEPT == " (template exists, kept)"

\* ------------------------------------------------------------ mappings
\* A mapping is the sequence of its entries in insertion order; a value is a
\* string, None or a mapping.
StrVal(s) == [t |-> "str", s |-> s, d |-> <<>>]

NoneVal == [t |-> "none", s |-> <<>>, d |-> <<>>]

DictVal(d) == [t |-> "dict", s |-> <<>>, d |-> d]

Entry(name, val) == [name |-> name, val |-> val]

TEMPLATE_KEY == <<"_", "_", "t", "e", "m", "p", "l", "a", "t", "e", "_", "_">>

PROJECT == <<"p", "r", "o", "j", "e", "c", "t">>

\* ------------------------------------------------------------ templates directory
\* The directory given as --templates, as rglob("*") lists it: paths relative
\* to it, every directory before its content.
TemplateStore ==
    << [rel |-> << <<"t">> >>, isdir |-> TRUE, content |-> <<>>],
       [rel |-> << <<"t">>, <<"a">> >>, isdir |-> TRUE, content |-> <<>>],
       [rel |-> << <<"t">>, <<"a">>, <<"f">> >>, isdir |-> FALSE, content |-> <<"y">>] >>

IsPrefix(p, q) == Len(p) <= Len(q) /\ SubSeq(q, 1, Len(p)) = p

\* (templates_dir / sub).exists()
TemplateExists(sub) == sub = <<>> \/ \E i \in 1..Len(TemplateStore) : TemplateStore[i].rel = sub

\* (templates_dir / sub).rglob("*"), each item with its path relative to sub
RGlob(sub) ==
    LET Under(it) == IsPrefix(sub, it.rel) /\ it.rel # sub
        sel == SelectSeq(TemplateStore, Under)
    IN  [i \in 1..Len(sel) |->
            [rel |-> SubSeq(sel[i].rel, Len(sub) + 1, Len(sel[i].rel)),
             isdir |-> sel[i].isdir, content |-> sel[i].content]]


\* ------------------------------------------------------------ build steps
\* A step's result: the filesystem after it, the errno of the exception that
\* ended it ("" when none) and the note of the record it appends.
StepResult(f, err, note) == [fs |-> f, err |-> err, note |-> note]

\* a directory target: a line ending in "/" or a key whose value is a mapping
DirTarget(f, p, dry) ==
    IF dry THEN StepResult(f, "", N_WOULD_DIR)
    ELSE LET r == Mkdir(f, p, TRUE, TRUE) IN StepResult(r.fs, r.err, N_DIR)

\* FileTarget opening the file to append: stale content survives an overwrite
FileTarget_Appends(f, p, content, frc, dry) ==
    LET ep == ensure_parent(f, p)
        w0 == Resolve(ep.fs, p)
        stale == IF w0.st = "ok" /\ ep.fs[w0.p].kind = "file" THEN ep.fs[w0.p].content ELSE <<>>
    IN  IF ep.err # "" THEN StepResult(ep.fs, ep.err, N_FILE)
        ELSE IF Exists(ep.fs, p) /\ ~frc THEN StepResult(ep.fs, "", N_KEPT)
        ELSE IF dry THEN StepResult(ep.fs, "", N_WOULD_FILE)
        ELSE LET w == WriteText(ep.fs, p, stale \o content)
             IN  StepResult(w.fs, w.err, N_FILE)

\* FileTarget without the test for an existing file: every run writes again
FileTarget_NoExistsTest(f, p, content, frc, dry) ==
    LET ep == ensure_parent(f, p)
    IN  IF ep.err # "" THEN StepResult(ep.fs, ep.err, N_FILE)
        ELSE IF dry THEN StepResult(ep.fs, "", N_WOULD_FILE)
        ELSE LET w == WriteText(ep.fs, p, content)
             IN  StepResult(w.fs, w.err, N_FILE)

\* a file target: any other line, or a key whose value is not a mapping
FileTarget(f, p, content, frc, dry) ==
    LET ep == ensure_parent(f, p)
    IN  IF ep.err # "" THEN StepResult(ep.fs, ep.err, N_FILE)
        ELSE IF Exists(ep.fs, p) /\ ~frc THEN StepResult(ep.fs, "", N_KEPT)
        ELSE IF dry THEN StepResult(ep.fs, "", N_WOULD_FILE)
        ELSE LET w == WriteText(ep.fs, p, content)
             IN  StepResult(w.fs, w.err, N_FILE)

\* one item of a template's rglob, copied to dest
TemplateItem(f, item, dest, frc, dry, keptNote) ==
    IF item.isdir
    THEN IF dry THEN StepResult(f, "", N_DIR)
         ELSE LET r == Mkdir(f, dest, TRUE, TRUE) IN StepResult(r.fs, r.err, N_DIR)
    ELSE LET ep == ensure_parent(f, dest)
         IN  IF ep.err # "" THEN StepResult(ep.fs, ep.err, N_FILE)
             ELSE IF Exists(ep.fs, dest) /\ ~frc THEN StepResult(ep.fs, "", keptNote)
             ELSE IF dry THEN StepResult(ep.fs, "", N_FILE)
             ELSE LET w == Copy2(ep.fs, Last(item.rel), item.content, dest)
                  IN  StepResult(w.fs, w.err, N_FILE)

\* what build_from_tree does with one raw line before it looks at the disk
LineSkipped(raw) ==
    LET line == RStrip(raw)
    IN  \/ line = <<>>
        \/ StartsWith(Lower(line), PROJECT)
        \/ strip_tree_chars(line) = <<>>

\* return from every recurse() call whose loop is over
RECURSIVE Unwind(_)
Unwind(stk) ==
    IF stk # <<>> /\ Last(stk).items = <<>> THEN Unwind(Front(stk)) ELSE stk

\* ------------------------------------------------------------ export
CharOrd(c) ==
    CASE c = "LF" -> 10 [] c = "CR" -> 13 [] c = " " -> 32 [] c = "." -> 46
      [] c = "/" -> 47 [] c = "P" -> 80 [] c = "_" -> 95 [] c = "a" -> 97
      [] c = "c" -> 99 [] c = "d" -> 100 [] c = "e" -> 101 [] c = "f" -> 102
      [] c = "j" -> 106 [] c = "l" -> 108 [] c = "m" -> 109 [] c = "o" -> 111
      [] c = "p" -> 112 [] c = "r" -> 114 [] c = "t" -> 116 [] c = "x" -> 120
      [] c = "y" -> 121 [] OTHER -> 9000

\* s < t as Python orders strings
RECURSIVE StrLess(_, _)
StrLess(s, t) ==
    IF t = <<>> THEN FALSE
    ELSE IF s = <<>> THEN TRUE
    ELSE IF Head(s) = Head(t) THEN StrLess(Tail(s), Tail(t))
    ELSE CharOrd(Head(s)) < CharOrd(Head(t))

\* sorted(names)
RECURSIVE Sorted(_)
Sorted(S) ==
    IF S = {} THEN <<>>
    ELSE LET m == CHOOSE x \in S : \A y \in S \ {x} : StrLess(x, y)
         IN  <<m>> \o Sorted(S \ {m})

\* the names p.iterdir() yields
Children(f, p) == {Last(q) : q \in {q \in DOMAIN f : q # <<>> /\ Parent(q) = p}}

\* Path.read_text(encoding="utf-8"): universal newlines; "XFF" is a byte that
\* is not UTF-8, on which it raises
RECURSIVE Newlines(_)
Newlines(c) ==
    IF c = <<>> THEN <<>>
    ELSE IF Head(c) = "CR"
         THEN IF Tail(c) # <<>> /\ Head(Tail(c)) = "LF" THEN <<"LF">> \o Newlines(Tail(Tail(c)))
              ELSE <<"LF">> \o Newlines(Tail(c))
    ELSE <<Head(c)>> \o Newlines(Tail(c))

Decodes(c) == \A i \in 1..Len(c) : c[i] # "XFF"

read_text(c) == [raised |-> ~Decodes(c), text |-> Newlines(c)]

RECURSIVE export_recurse(_, _)
export_recurse(f, p) ==
    LET names == Sorted(Children(f, p))
    IN  [i \in 1..Len(names) |->
            LET child == Append(p, names[i])
            IN  IF f[child].kind = "dir"
                THEN Entry(names[i], DictVal(export_recurse(f, child)))
                ELSE LET r == read_text(f[child].content)
                     IN  Entry(names[i], StrVal(IF r.raised THEN <<>> ELSE r.text))]

export_dict(f, root) == << Entry(Last(root), DictVal(export_recurse(f, root))) >>


\* ------------------------------------------------------------ inputs
ROOT == << <<"r">> >>

\* the directory exported in a round trip
SRC == << <<"d">> >>

Lines ==
    { <<"P", "r", "o", "j", "e", "c", "t">>,
      <<"a", "/">>,
      <<"a", "/", "f">>,
      <<"TEE", "DASH", "DASH", " ", "f">>,
      <<"f", "/", "LF">>,
      <<"p", "r", "o", "j", "e", "c", "t", "/">>,
      <<".", ".", "/", "e">>,
      <<"VBAR", " ", " ">> }

TreeFiles == UNION {[1..n -> Lines] : n \in 0..MaxLines}

Keys == { <<"a">>, <<"f">>, <<"a", "/", "f">>, TEMPLATE_KEY, <<"/", "e">> }

InnerKeys == { <<"f">>, TEMPLATE_KEY }

\* None, and a string that is a file's content or a template's name
LeafVals == { NoneVal, StrVal(<<"t">>) }

UniqueKeys(d) == \A i, j \in 1..Len(d) : d[i].name = d[j].name => i = j

InnerDicts ==
    { d \in UNION {[1..n -> {Entry(k, v) : k \in InnerKeys, v \in LeafVals}] :
                     n \in 0..(MaxSize - 1)} : UniqueKeys(d) }

Vals == LeafVals \cup { DictVal(d) : d \in InnerDicts }

\* the number of keys of a mapping, nested ones included
RECURSIVE Size(_)
Size(d) == IF d = <<>> THEN 0 ELSE 1 + Len(Head(d).val.d) + Size(Tail(d))

Structures ==
    { d \in UNION {[1..n -> {Entry(k, v) : k \in Keys, v \in Vals}] : n \in 0..MaxSize} :
        UniqueKeys(d) /\ Size(d) <= MaxSize }

\* prior states of the disk
NoRoot == [p \in {<<>>} |-> DirNode]

EmptyRoot(root) == [p \in {<<>>, root} |-> DirNode]

UsedRoot ==
    [p \in {<<>>, ROOT, ROOT \o << <<"f">> >>, ROOT \o << <<"a">> >>,
            ROOT \o << <<"a">>, <<"f">> >>} |->
        IF Len(p) = 3 \/ p = ROOT \o << <<"f">> >> THEN FileNode(<<"o", "l", "d">>)
        ELSE DirNode]

PriorDisks == { NoRoot, EmptyRoot(ROOT), UsedRoot }


\* directories a round trip exports: files named f and __template__ at the
\* top and in a directory a
FileNames == { <<"f">>, TEMPLATE_KEY }

Contents == { <<>>, <<"x">>, <<"x", "CR", "LF">>, <<"XFF">> }

\* a choice of files for one directory: name -> content, or "absent"
ABSENT == <<"absent">>

FileChoices == [FileNames -> Contents \cup {ABSENT}]

SourceDisk(top, hasA, inA) ==
    LET topFiles == {n \in FileNames : top[n] # ABSENT}
        aFiles == IF hasA THEN {n \in FileNames : inA[n] # ABSENT} ELSE {}
        paths == {<<>>, SRC, ROOT} \cup {Append(SRC, n) : n \in topFiles}
                 \cup (IF hasA THEN {Append(SRC, <<"a">>)} ELSE {})
                 \cup {SRC \o << <<"a">>, n >> : n \in aFiles}
    IN  [p \in paths |->
            IF Len(p) = 2 /\ Last(p) \in topFiles THEN FileNode(top[Last(p)])
            ELSE IF Len(p) = 3 THEN FileNode(inA[Last(p)])
            ELSE DirNode]

SourceDisks ==
    {SourceDisk(top, TRUE, inA) : top \in FileChoices, inA \in FileChoices}
    \cup {SourceDisk(top, FALSE, top) : top \in FileChoices}

\* ------------------------------------------------------------ state
VARIABLES
    fs,        \* the disk
    args,      \* what the run was started with; never changes
    structure, \* the mapping build_from_dict is given
    pc,        \* where the run is
    idx,       \* build_from_tree: the index of the next line
    stack,     \* build_from_dict: the active recurse() calls, innermost last
    titems,    \* the template items still to copy
    tbase,     \* where they are copied to
    created,   \* the list of records the build has appended so far
    printed,   \* the records main has printed
    run,       \* 1, or 2 when the same build is run again
    fsMain,    \* history: the disk when the program started
    fs0,       \* history: the disk when the build function was called
    fs1,       \* history: the disk when the first run ended
    pre,       \* history: the disk before the last step
    last       \* history: the last step

vars == <<fs, args, structure, pc, idx, stack, titems, tbase, created, printed,
          run, fsMain, fs0, fs1, pre, last>>

NoStep == [op |-> "none", path |-> <<>>, val |-> NoneVal, err |-> ""]

Step(op, p, val, err) == [op |-> op, path |-> p, val |-> val, err |-> err]

Args(entry, kind, lines, force, dry, templates, ext, yaml) ==
    [entry |-> entry, kind |-> kind, lines |-> lines, force |-> force,
     dry_run |-> dry, templates |-> templates, root |-> ROOT, ext |-> ext,
     yaml |-> yaml]

\* build_from_tree / build_from_dict called on any prior disk
CallArgs ==
    {Args("call", "tree", l, f, d, t, "", TRUE) :
        l \in TreeFiles, f \in BOOLEAN, d \in BOOLEAN, t \in {"none", "missing", "dir"}}
    \cup {Args("call", "dict", <<>>, f, d, t, ".json", TRUE) :
            f \in BOOLEAN, d \in BOOLEAN, t \in {"none", "dir"}}

\* treefs build <input> <root> [--dry-run]
MainArgs ==
    {Args("main", "tree", l, FALSE, d, "none", "", TRUE) :
        l \in TreeFiles, d \in BOOLEAN}
    \cup {Args("main", "dict", <<>>, FALSE, d, "none", e, y) :
            d \in BOOLEAN, e \in {".json", ".yaml"}, y \in BOOLEAN}

\* export_dict(SRC) handed to build_from_dict(ROOT, ...)
RoundTripArgs ==
    {Args("roundtrip", "dict", <<>>, f, FALSE, "none", "", TRUE) : f \in BOOLEAN}

InitRest ==
    /\ pc = "start"
    /\ idx = 1
    /\ stack = <<>>
    /\ titems = <<>>
    /\ tbase = <<>>
    /\ created = <<>>
    /\ printed = <<>>
    /\ run = 1
    /\ fsMain = fs
    /\ fs0 = fs
    /\ fs1 = fs
    /\ pre = fs
    /\ last = NoStep

Init ==
    /\ \/ /\ args \in CallArgs
          /\ fs \in (IF args.kind = "tree" THEN PriorDisks ELSE PriorDisks \ {NoRoot})
          /\ structure \in (IF args.kind = "dict" THEN Structures ELSE {<<>>})
       \/ /\ args \in MainArgs
          /\ fs \in {NoRoot, EmptyRoot(ROOT)}
          /\ structure \in (IF args.kind = "dict"
                            THEN {d \in Structures : Len(d) <= 1} ELSE {<<>>})
       \/ /\ args \in RoundTripArgs
          /\ fs \in SourceDisks
          /\ structure = <<>>
    /\ InitRest


\* ------------------------------------------------------------ actions
\* the call of build_from_tree / build_from_dict on the disk f
StartBuild(f, struct) ==
    /\ fs' = f
    /\ fs0' = f
    /\ pre' = f
    /\ structure' = struct
    /\ created' = <<>>
    /\ idx' = 1
    /\ titems' = <<>>
    /\ tbase' = <<>>
    /\ last' = NoStep
    /\ IF args.kind = "tree"
       THEN stack' = <<>> /\ pc' = "tree"
       ELSE LET stk == Unwind(<< [base |-> args.root, items |-> struct] >>)
            IN  stack' = stk /\ pc' = IF stk = <<>> THEN "return" ELSE "dict"

\* an exception leaves the function: the records appended so far are lost to
\* the caller (created keeps them as history)
Raise(f, step) ==
    /\ fs' = f
    /\ pc' = "error"
    /\ last' = step
    /\ UNCHANGED <<args, structure, idx, stack, titems, tbase, created, printed,
                   run, fsMain, fs0, fs1, pre>>

\* a library caller calls the build function
CallStart ==
    /\ pc = "start"
    /\ args.entry = "call"
    /\ StartBuild(fs, structure)
    /\ UNCHANGED <<args, printed, run, fsMain, fs1>>

\* main, "build": root.mkdir(parents=True, exist_ok=True), then the dispatch
\* on the input file's extension
MainStart ==
    /\ pc = "start"
    /\ args.entry = "main"
    /\ LET r == Mkdir(fs, args.root, TRUE, TRUE)
       IN  IF r.err # "" THEN Raise(r.fs, Step("mkdir root", args.root, NoneVal, r.err))
           ELSE IF args.kind = "dict"
                THEN /\ fs' = r.fs
                     /\ pc' = "load"
                     /\ UNCHANGED <<args, structure, idx, stack, titems, tbase, created,
                                    printed, run, fsMain, fs0, fs1, pre, last>>
                ELSE /\ StartBuild(r.fs, structure)
                     /\ UNCHANGED <<args, printed, run, fsMain, fs1>>

\* load_config: YAML needs the optional module; then build_from_dict is called
LoadConfig ==
    /\ pc = "load"
    /\ IF args.ext = ".yaml" /\ ~args.yaml
       THEN Raise(fs, Step("load", <<>>, NoneVal, "RuntimeError"))
       ELSE /\ StartBuild(fs, structure)
            /\ UNCHANGED <<args, printed, run, fsMain, fs1>>

\* export_dict(SRC), and build_from_dict(ROOT, that mapping, ...)
ExportConfig ==
    /\ pc = "start"
    /\ args.entry = "roundtrip"
    /\ StartBuild(fs, export_dict(fs, SRC))
    /\ UNCHANGED <<args, printed, run, fsMain, fs1>>

\* one iteration of build_from_tree's loop over the lines
TreeStep ==
    /\ pc = "tree"
    /\ idx <= Len(args.lines)
    /\ LET raw == args.lines[idx]
           clean == strip_tree_chars(RStrip(raw))
           fs_path == Join(args.root, clean)
           isdir == EndsWith(clean, "/")
           r == IF isdir THEN DirTarget(fs, fs_path, args.dry_run)
                ELSE FileTarget(fs, fs_path, <<>>, args.force, args.dry_run)
           step == Step(IF isdir THEN "dir" ELSE "file", fs_path, NoneVal, r.err)
       IN  IF LineSkipped(raw)
           THEN /\ idx' = idx + 1
                /\ last' = Step("skip", <<>>, NoneVal, "")
                /\ UNCHANGED <<fs, args, structure, pc, stack, titems, tbase, created,
                               printed, run, fsMain, fs0, fs1, pre>>
           ELSE IF r.err # "" THEN Raise(r.fs, step)
           ELSE /\ fs' = r.fs
                /\ pre' = fs
                /\ created' = Append(created, Rec(fs_path, r.note))
                /\ idx' = idx + 1
                /\ last' = step
                /\ UNCHANGED <<args, structure, pc, stack, titems, tbase, printed, run,
                               fsMain, fs0, fs1>>

\* the lines are done: the templates directory, when given and there
TreeFinish ==
    /\ pc = "tree"
    /\ idx > Len(args.lines)
    /\ IF args.templates = "dir" /\ RGlob(<<>>) # <<>>
       THEN /\ titems' = RGlob(<<>>)
            /\ tbase' = args.root
            /\ pc' = "tmpl"
       ELSE /\ pc' = "return"
            /\ UNCHANGED <<titems, tbase>>
    /\ UNCHANGED <<fs, args, structure, idx, stack, created, printed, run, fsMain,
                   fs0, fs1, pre, last>>

\* one item of the templates directory, copied under root by build_from_tree
\* (pc = "tmpl") or spliced under base by build_from_dict (pc = "splice")
TemplateStep ==
    /\ pc \in {"tmpl", "splice"}
    /\ titems # <<>>
    /\ LET item == Head(titems)
           dest == tbase \o item.rel
           r == TemplateItem(fs, item, dest, args.force, args.dry_run,
                             IF pc = "tmpl" THEN N_TKEPT ELSE N_KEPT)
           step == Step(IF item.isdir THEN "tdir" ELSE "tfile", dest,
                        StrVal(item.content), r.err)
           stk == Unwind(stack)
       IN  IF r.err # "" THEN Raise(r.fs, step)
           ELSE /\ fs' = r.fs
                /\ pre' = fs
                /\ created' = Append(created, Rec(dest, r.note))
                /\ titems' = Tail(titems)
                /\ last' = step
                /\ IF Tail(titems) # <<>> THEN UNCHANGED <<pc, stack>>
                   ELSE IF pc = "tmpl" THEN pc' = "return" /\ UNCHANGED stack
                   ELSE /\ stack' = stk
                        /\ pc' = IF stk = <<>> THEN "return" ELSE "dict"
                /\ UNCHANGED <<args, structure, idx, tbase, printed, run, fsMain, fs0, fs1>>


\* one iteration of a recurse() loop of build_from_dict
DictStep ==
    /\ pc = "dict"
    /\ stack # <<>>
    /\ LET top == Last(stack)
           e == Head(top.items)
           stk1 == [stack EXCEPT ![Len(stack)].items = Tail(@)]
           path == Join(top.base, e.name)
           sub == SplitPath(e.val.s)
           content == IF e.val.t = "str" THEN e.val.s ELSE <<>>
           r == IF e.val.t = "dict" THEN DirTarget(fs, path, args.dry_run)
                ELSE FileTarget(fs, path, content, args.force, args.dry_run)
           step == Step(IF e.val.t = "dict" THEN "dir" ELSE "file", path, e.val, r.err)
           stk2 == Unwind(IF e.val.t = "dict"
                          THEN Append(stk1, [base |-> path, items |-> e.val.d])
                          ELSE stk1)
       IN  IF e.name = TEMPLATE_KEY /\ e.val.t = "str"
           THEN /\ last' = Step("template", top.base, e.val, "")
                /\ pre' = fs
                /\ IF args.templates = "dir" /\ TemplateExists(sub) /\ RGlob(sub) # <<>>
                   THEN /\ titems' = RGlob(sub)
                        /\ tbase' = top.base
                        /\ stack' = stk1
                        /\ pc' = "splice"
                   ELSE /\ stack' = Unwind(stk1)
                        /\ pc' = IF Unwind(stk1) = <<>> THEN "return" ELSE "dict"
                        /\ UNCHANGED <<titems, tbase>>
                /\ UNCHANGED <<fs, args, structure, idx, created, printed, run, fsMain,
                               fs0, fs1>>
           ELSE IF r.err # "" THEN Raise(r.fs, step)
           ELSE /\ fs' = r.fs
                /\ pre' = fs
                /\ created' = Append(created, Rec(path, r.note))
                /\ stack' = stk2
                /\ pc' = IF stk2 = <<>> THEN "return" ELSE "dict"
                /\ last' = step
                /\ UNCHANGED <<args, structure, idx, titems, tbase, printed, run, fsMain,
                               fs0, fs1>>

\* the build function returns its list; main prints it
Finish ==
    /\ pc = "return"
    /\ pc' = "done"
    /\ printed' = IF args.entry = "main" THEN created ELSE printed
    /\ fs1' = IF run = 1 THEN fs ELSE fs1
    /\ UNCHANGED <<fs, args, structure, idx, stack, titems, tbase, created, run, fsMain,
                   fs0, pre, last>>

\* the caller runs the same build again, on the same input and root
Rerun ==
    /\ pc = "done"
    /\ run = 1
    /\ args.entry = "call"
    /\ ~args.dry_run
    /\ run' = 2
    /\ StartBuild(fs, structure)
    /\ UNCHANGED <<args, printed, fsMain, fs1>>

Next ==
    \/ CallStart
    \/ MainStart
    \/ LoadConfig
    \/ ExportConfig
    \/ TreeStep
    \/ TreeFinish
    \/ TemplateStep
    \/ DictStep
    \/ Finish
    \/ Rerun

Spec == Init /\ [][Next]_vars


\* ------------------------------------------------------------ properties
\* the build function has been called (and main is past its own steps)
Building == pc \notin {"start", "load"} /\ last.op \notin {"load", "mkdir root"}

\* the files of a disk with their contents
Files(f) == {<<p, f[p].content>> : p \in {q \in DOMAIN f : f[q].kind = "file"}}

IsKept(note) == note \in {N_KEPT, N_TKEPT}

IsCreated(note) == note \in {N_FILE, N_DIR, N_WOULD_FILE, N_WOULD_DIR}

IsFileRecord(note) == note \in {N_FILE, N_WOULD_FILE, N_KEPT, N_TKEPT}

LastRec == created[Len(created)]

\* C1: a build with dry_run=True leaves the disk exactly as it was when the
\* build function was called: no directory and no file is created or changed.
C1_DryRunPurity == (Building /\ args.dry_run) => fs = fs0

\* C2: a file target's outcome is fixed by (exists at that moment, force,
\* dry_run): exists and not force -> recorded "(exists, kept)", no file
\* touched; otherwise under dry_run -> recorded "would create", no file
\* written; otherwise the file holds exactly the declared content (empty for
\* a tree line and for a value that is no string), no other file is touched,
\* and it is recorded as created.
C2_FileOutcome ==
    (last.op = "file" /\ pc # "error") =>
        LET p == last.path
            ex == Exists(ensure_parent(pre, p).fs, p)
            declared == IF last.val.t = "str" THEN last.val.s ELSE <<>>
            w == Resolve(fs, p)
        IN  /\ created # <<>>
            /\ LastRec.path = p
            /\ IF ex /\ ~args.force
               THEN LastRec.note = N_KEPT /\ Files(fs) = Files(pre)
               ELSE IF args.dry_run
               THEN LastRec.note = N_WOULD_FILE /\ Files(fs) = Files(pre)
               ELSE /\ LastRec.note = N_FILE
                    /\ w.st = "ok"
                    /\ fs[w.p] = FileNode(declared)
                    /\ \A q \in DOMAIN pre :
                          (pre[q].kind = "file" /\ q # w.p) => (q \in DOMAIN fs /\ fs[q] = pre[q])
                    /\ \A q \in DOMAIN fs :
                          (fs[q].kind = "file" /\ q # w.p) => q \in DOMAIN pre

\* C2 witness: an existing file with stale content was overwritten under force
C2_Overwritten ==
    /\ last.op = "file"
    /\ pc # "error"
    /\ args.force
    /\ ~args.dry_run
    /\ last.val.t = "str"
    /\ Exists(pre, last.path)
    /\ pre[Resolve(pre, last.path).p] = FileNode(<<"o", "l", "d">>)
    /\ fs[Resolve(fs, last.path).p] = FileNode(last.val.s)

\* C3: when a build with force=False and dry_run=False has completed and the
\* same build is run again, the disk after the second run is the disk after
\* the first, and every record of a file target in the second run is a kept
\* record.
C3_Idempotent ==
    (run = 2 /\ pc = "done" /\ ~args.force /\ ~args.dry_run) =>
        /\ fs = fs1
        /\ \A i \in 1..Len(created) :
              IsFileRecord(created[i].note) => IsKept(created[i].note)

\* C3 witness: a second run ended, after a first run that wrote a file
C3_SecondRunKept ==
    /\ run = 2
    /\ pc = "done"
    /\ ~args.force
    /\ ~args.dry_run
    /\ Files(fs1) # Files(fsMain)
    /\ \E i \in 1..Len(created) : created[i].note = N_KEPT

\* the tree under root, as relative paths
Subtree(f, root) ==
    {<<SubSeq(p, Len(root) + 1, Len(p)), f[p]>> :
        p \in {q \in DOMAIN f : IsPrefix(root, q) /\ q # root}}

TextOnly(f, root) ==
    \A p \in DOMAIN f : (IsPrefix(root, p) /\ f[p].kind = "file") => Decodes(f[p].content)

\* C4: export_dict(D) built by build_from_dict into an empty root reproduces,
\* under root/<name of D>, a tree identical to D in names, nesting and file
\* contents, for any D of directories and text files.
C4_RoundTrip ==
    (args.entry = "roundtrip" /\ pc = "done" /\ TextOnly(fsMain, SRC)) =>
        Subtree(fs, Append(args.root, Last(SRC))) = Subtree(fsMain, SRC)

\* C5: in one run no target path is recorded both as created (or
\* would-create) and as kept.
C5_NeverCreatedAndKept ==
    \A i, j \in 1..Len(created) :
        created[i].path = created[j].path =>
            ~(IsCreated(created[i].note) /\ IsKept(created[j].note))

\* what the lines of a tree file declare: one entry per line that is not
\* blank once stripped and is not the banner, the first line when its text
\* starts with "project"
RECURSIVE Declared(_, _)
Declared(lines, i) ==
    IF i > Len(lines) THEN <<>>
    ELSE LET text == strip_tree_chars(lines[i])
             banner == i = 1 /\ StartsWith(Lower(text), PROJECT)
         IN  IF text = <<>> \/ banner THEN Declared(lines, i + 1)
             ELSE <<[path |-> Join(args.root, text), isdir |-> EndsWith(text, "/")]>>
                  \o Declared(lines, i + 1)

\* C6: when build_from_tree has gone through the lines, its records are, in
\* order, one per declared entry, a directory record iff the text ends in "/".
C6_OneRecordPerLine ==
    (args.kind = "tree" /\ pc = "tree" /\ idx > Len(args.lines)) =>
        LET want == Declared(args.lines, 1)
        IN  /\ Len(created) = Len(want)
            /\ \A k \in 1..Len(want) :
                  /\ created[k].path = want[k].path
                  /\ (created[k].note \in {N_DIR, N_WOULD_DIR}) = want[k].isdir

\* C7: when 'build' ends with an error raised by load_config, nothing on the
\* disk has changed since the program started; the root was not created.
C7_FailFast == (pc = "error" /\ last.op = "load") => fs = fsMain

\* C8: when a filesystem error aborts a build started by main, the records of
\* the steps completed before it are reported to the user.
C8_RecordsReported ==
    (pc = "error" /\ args.entry = "main" /\ Building) => printed = created

\* C9: a file spliced by build_from_dict from a template follows the rules of
\* an inline file: kept and untouched when it exists and force is off;
\* otherwise under dry_run a would-create record and nothing copied;
\* otherwise copied and recorded as created.  A reference that names no
\* template adds no record and changes nothing.
C9_SplicedFileOutcome ==
    /\ (last.op = "tfile" /\ args.kind = "dict" /\ pc # "error") =>
          LET p == last.path
              ex == Exists(ensure_parent(pre, p).fs, p)
              w == Resolve(fs, p)
          IN  IF ex /\ ~args.force
              THEN LastRec.note = N_KEPT /\ Files(fs) = Files(pre)
              ELSE IF args.dry_run
              THEN LastRec.note \in {N_WOULD_FILE, N_WOULD_DIR} /\ Files(fs) = Files(pre)
              ELSE LastRec.note = N_FILE /\ w.st = "ok"
    /\ (last.op = "template" /\ pc # "splice") => (fs = pre /\ titems = <<>>)

\* C10: everything a build creates or changes lies inside the root.
C10_Containment ==
    Building =>
        \A p \in DOMAIN fs :
            (p \notin DOMAIN fs0 \/ fs[p] # fs0[p]) => IsPrefix(args.root, p)

====
